---- MODULE Spec2Model ----
(***************************************************************************)
(* Model of src/index.ts: the lint action.  One invocation of main() is    *)
(* a single sequential process; its position is pc.  Every await of a      *)
(* remote call is a step boundary, so that another writer of the head      *)
(* branch (OtherWriter) can act between a read and the write after it.     *)
(***************************************************************************)
EXTENDS Integers, Sequences, FiniteSets, TLC

VARIABLES
    pc,          \* position of main() / runESLint / runPrettier / updateFile
    options_pr,  \* options.pr: the pull request number, NoPR when there is none
    listing,     \* the remote files-changed resource: a sequence of pages
    files,       \* main: the change set returned by getChangedFiles
    head,        \* contents of each file in the checked-out commit (git index)
    local,       \* contents of each file in the working tree
    rewrote,     \* the files each stage's tool has rewritten in the working tree
    remote,      \* contents of each file on the head branch (GITHUB_HEAD_REF)
    started,     \* the stages entered so far, in call order
    binary,      \* runESLint.eslint / runPrettier.prettier: getBinary's result
    checks,      \* the check runs created so far; a run's id is its index
    id,          \* the id of the check run of the current stage
    results,     \* runESLint: the linter's parsed output
    errors,      \* runESLint: error count
    annotations, \* runESLint: annotations built from the results
    payloads,    \* runESLint: chunks(annotations)
    index,       \* runESLint: number of payloads sent
    updates,     \* every octa.checks.update call issued, in order
    logged,      \* number of core.error calls (the linter stage's catch)
    changes,     \* the files of getLocalChangedFiles not yet reconciled
    file,        \* updateFile: the result of getFileFromBranch
    commits,     \* every createOrUpdateFileContents call issued, in order
    otherWrites, \* number of writes by other writers of the head branch
    tools        \* what the installed linter and formatter do to a file's contents

vars == <<pc, options_pr, listing, files, head, local, rewrote, remote, started, binary,
          checks, id, results, errors, annotations, payloads, index, updates,
          logged, changes, file, commits, otherWrites, tools>>

----------------------------------------------------------------------------
(* Bounds of the model. *)

\* The linter reports up to MaxFullChunks full chunks of messages, and one more.
MaxFullChunks == 1
\* Entries of the files-changed resource.
MaxEntries == 2
\* Writes to the head branch by other writers during the invocation.
MaxOtherWrites == 1

----------------------------------------------------------------------------
(* Values. *)

NoPR == "null"
PRNumber == "pr"
Null == "null"

\* Paths of the repository, in the order git lists them.
Paths == <<"a.ts", "b.md">>
Files == {Paths[i] : i \in 1..Len(Paths)}
Contents == {"", "x", "y"}
Statuses == {"modified", "removed"}
\* The contents of every file in the checked-out commit.
Committed == "x"

Range(s) == {s[i] : i \in 1..Len(s)}
Last(s) == s[Len(s)]

RECURSIVE Flatten(_)
Flatten(ss) == IF ss = <<>> THEN <<>> ELSE Head(ss) \o Flatten(Tail(ss))

RECURSIVE SeqSum(_)
SeqSum(s) == IF s = <<>> THEN 0 ELSE Head(s) + SeqSum(Tail(s))

\* options.fix = !!pull_request
options_fix == options_pr # NoPR

\* The default value of chunks' parameter size.
ChunkSize == 50

----------------------------------------------------------------------------
(* Pure functions of the program and of its collaborators. *)

Min(a, b) == IF a < b THEN a ELSE b

\* Array.prototype.slice(start, end) for 0 <= start, 0 <= end: the elements at
\* the 0-based positions start .. end-1 that exist.
Slice(items, start, end) ==
    LET stop == Min(end, Len(items))
    IN  IF start < stop THEN [i \in 1..(stop - start) |-> items[start + i]] ELSE <<>>

\* chunks, lines 50-57: for (i = 0; i < items.length; i += size)
\*                        chunks.push(items.slice(i, size))
RECURSIVE chunksFrom(_, _, _)
chunksFrom(items, size, i) ==
    IF i < Len(items)
    THEN <<Slice(items, i, size)>> \o chunksFrom(items, size, i + size)
    ELSE <<>>

\* chunks with the loop test written i <= items.length
RECURSIVE chunksInclusiveFrom(_, _, _)
chunksInclusiveFrom(items, size, i) ==
    IF i <= Len(items)
    THEN <<Slice(items, i, size)>> \o chunksInclusiveFrom(items, size, i + size)
    ELSE <<>>

chunksInclusive(items) == chunksInclusiveFrom(items, ChunkSize, 0)

\* chunks with items.slice(i) in place of items.slice(i, size)
RECURSIVE chunksToEndFrom(_, _, _)
chunksToEndFrom(items, size, i) ==
    IF i < Len(items)
    THEN <<Slice(items, i, Len(items))>> \o chunksToEndFrom(items, size, i + size)
    ELSE <<>>

chunksToEnd(items) == chunksToEndFrom(items, ChunkSize, 0)

chunks(items) == chunksFrom(items, ChunkSize, 0)

\* Buffer.from(contents).toString('base64'), and the encoding in which the
\* contents API returns a file.
Base64(c) ==
    CASE c = "" -> ""
      [] c = "x" -> "eA=="
      [] c = "y" -> "eQ=="

Base64Decode(b) == CHOOSE c \in Contents : Base64(c) = b

\* The content hash (blob sha) the contents API returns with a file.
BlobSha(c) == "sha(" \o c \o ")"

\* /\.(ts|tsx|vue)$/.test(arg)
IsLintable(arg) == arg \in {"a.ts"}

\* args.filter(...), line 66
LintArgs(args) == SelectSeq(args, IsLintable)

\* getBinaryUsing, lines 18-29: `<pm> bin` may throw; a failed version probe
\* gives null.
Throw == "throw"
getBinaryUsing(packageManager, name, binOk, probeOk) ==
    IF ~binOk THEN Throw
    ELSE IF probeOk THEN "node_modules/.bin/" \o name
    ELSE Null

\* getBinary, lines 31-37: the lockfile present selects the package manager.
getBinary(lockfiles, name, binOk, probeOk) ==
    IF "pnpm-lock.yaml" \in lockfiles THEN getBinaryUsing("pnpm", name, binOk, probeOk)
    ELSE IF "yarn.lock" \in lockfiles THEN getBinaryUsing("yarn", name, binOk, probeOk)
    ELSE getBinaryUsing("npm", name, binOk, probeOk)

Lockfiles == {"pnpm-lock.yaml", "yarn.lock"}

\* options.workspace; the linter reports absolute paths below it.
Workspace == "/ws"
AbsolutePath(dir, name) == [dir |-> dir, name |-> name]
\* path.relative(options.workspace, result.filePath)
PathRelative(from, p) == IF p.dir = from THEN p.name ELSE p.dir \o "/" \o p.name

\* line 74: if (message.fix && options.fix) continue
IsReported(message) == ~(message.fix /\ options_fix)

\* lines 77-85
Annotation(fileName, message) ==
    [path |-> fileName,
     start_line |-> message.line,
     start_column |-> message.column,
     end_line |-> IF message.endLine # 0 THEN message.endLine ELSE message.line,
     end_columnn |-> message.endColumn,
     annotation_level |-> IF message.severity = 2 THEN "failure" ELSE "warning",
     message |-> "[" \o message.ruleId \o "] " \o message.message]

ResultAnnotations(result) ==
    LET fileName == PathRelative(Workspace, result.filePath)
        kept == SelectSeq(result.messages, IsReported)
    IN  [i \in 1..Len(kept) |-> Annotation(fileName, kept[i])]

\* lines 69-87: the annotations of all results, in order
BuildAnnotations(rs) == Flatten([i \in 1..Len(rs) |-> ResultAnnotations(rs[i])])

\* the error test made before the test of message.fix
IsAnyError(message) == message.severity = 2

IsCountedError(message) == IsReported(message) /\ message.severity = 2

\* lines 69-87: the value of errors after the loops
CountErrors(rs) ==
    SeqSum([i \in 1..Len(rs) |-> Len(SelectSeq(rs[i].messages, IsCountedError))])

\* line 98
Conclusion(n) == IF n # 0 THEN "failure" ELSE "success"

\* line 101
Summary(n) == ToString(n) \o " " \o (IF n = 1 THEN "error" ELSE "errors") \o " found"

\* octa.paginate: the pages concatenated in page order
Paginate(pages) == Flatten(pages)

IsNotRemoved(entry) == entry.status # "removed"

\* getChangedFiles without the test of options.pr
getChangedFilesNoGuard(pr, pages) ==
    LET kept == SelectSeq(Paginate(pages), IsNotRemoved)
    IN  [i \in 1..Len(kept) |-> kept[i].filename]

\* getChangedFiles without the filter on status
getChangedFilesUnfiltered(pr, pages) ==
    IF pr = NoPR THEN <<>>
    ELSE LET all == Paginate(pages)
         IN  [i \in 1..Len(all) |-> all[i].filename]

\* getChangedFiles, lines 174-195
getChangedFiles(pr, pages) ==
    IF pr = NoPR THEN <<>>
    ELSE LET kept == SelectSeq(Paginate(pages), IsNotRemoved)
         IN  [i \in 1..Len(kept) |-> kept[i].filename]

\* A diff that names every tracked file, changed or not.
GitDiffNamesAll == Paths

\* `git diff --name-only`: the files whose working-tree contents differ from
\* the index, in path order
GitDiffNames == SelectSeq(Paths, LAMBDA f : local[f] # head[f])

\* getLocalChangedFiles without the working-tree diff: every candidate file
getLocalChangedFilesAll(fs) == SelectSeq(Paths, LAMBDA f : f \in Range(fs))

\* getLocalChangedFiles, lines 164-173
getLocalChangedFiles(fs) == SelectSeq(GitDiffNames, LAMBDA f : f \in Range(fs))

\* getFileFromBranch, lines 145-151: the response's data
getFileFromBranch(fileName) ==
    [path |-> fileName, content |-> Base64(remote[fileName]), sha |-> BlobSha(remote[fileName])]

\* line 133
NeedsWrite(f, contents) == f.content # contents

\* the hash of whatever the branch holds when the write is sent
CommitShaLatest(f) == BlobSha(remote[f.path])

\* line 140: the hash sent with the write
CommitSha(f) == f.sha

\* line 139
CommitMessage(message, fileName) == message \o " " \o fileName

StagePrefix(stage) ==
    IF stage = "ESLint" THEN "style(auto): eslint fix" ELSE "style(auto): prettier fix"

----------------------------------------------------------------------------
(* Inputs. *)

Entries == [filename : Files, status : Statuses]

FlatListings ==
    {s \in UNION {[1..n -> Entries] : n \in 0..MaxEntries} :
        \A i, j \in 1..Len(s) : i # j => s[i].filename # s[j].filename}

NonEmpty(page) == page # <<>>

\* The entries s served as pages, the first page holding k entries.
Pages(s, k) == SelectSeq(<<Slice(s, 0, k), Slice(s, k, Len(s))>>, NonEmpty)

Listings == {Pages(s, k) : s \in FlatListings, k \in 0..MaxEntries}

MessageCounts == {ChunkSize * q + r : q \in 0..MaxFullChunks, r \in {0, 1}}

\* n messages of the linter for one file: message errIdx (if any) is an error,
\* the others are warnings; the messages from fixFrom on carry a fix.
LinterMessages(n, errIdx, fixFrom) ==
    [i \in 1..n |->
        [line |-> i, column |-> 1, endLine |-> 0, endColumn |-> 0,
         severity |-> IF i = errIdx THEN 2 ELSE 1,
         ruleId |-> "rule", message |-> "text",
         fix |-> i >= fixFrom]]

\* The shapes of output: <<errIdx, fixFrom>> for n messages.
MessageShapes(n) == {<<0, 1>>, <<n, 2>>, <<1, 2>>, <<0, n + 1>>, <<n, n + 1>>}

\* The linter's JSON output for args: one result per file.
LinterOutputs(args) ==
    {[i \in 1..Len(args) |->
        [filePath |-> AbsolutePath(Workspace, args[i]),
         messages |-> LinterMessages(n, shape[1], shape[2])]] :
        <<n, shape>> \in UNION {{<<m, sh>> : sh \in MessageShapes(m)} : m \in MessageCounts}}

\* The working trees a tool run on args can leave behind: only files among
\* args are rewritten.
Rewrites(args) ==
    {t \in [Files -> Contents] : \A f \in Files : f \notin Range(args) => t[f] = local[f]}

\* The files whose contents in tree t differ from the working tree's.
Rewritten(t) == {f \in Files : t[f] # local[f]}

Stages == {"ESLint", "Prettier"}

\* Tools of which nothing is known: a run may leave any contents behind.
AnyTools == "any"
ToolName(stage) == IF stage = "ESLint" THEN "eslint" ELSE "prettier"

----------------------------------------------------------------------------
(* The state after construction: a fresh checkout of the head commit. *)

Init ==
    /\ pc = <<"main", "getChangedFiles">>
    /\ options_pr \in {NoPR, PRNumber}
    /\ listing \in Listings
    /\ files = <<>>
    /\ head = [f \in Files |-> Committed]
    /\ local = head
    /\ rewrote = [s \in Stages |-> {}]
    /\ remote = head
    /\ started = <<>>
    /\ binary = [s \in Stages |-> "unset"]
    /\ checks = <<>>
    /\ id = [s \in Stages |-> 0]
    /\ results = <<>>
    /\ errors = 0
    /\ annotations = <<>>
    /\ payloads = <<>>
    /\ index = 0
    /\ updates = <<>>
    /\ logged = 0
    /\ changes = <<>>
    /\ file = [path |-> "", content |-> "", sha |-> ""]
    /\ commits = <<>>
    /\ otherWrites = 0
    /\ tools = AnyTools

lintVars == <<results, errors, annotations, payloads, index, logged>>
treeVars == <<head, local, rewrote>>
inputVars == <<options_pr, listing, tools>>

\* Where control goes when a stage returns: main, lines 247-249.
AfterStage(stage) ==
    IF stage = "ESLint" THEN <<"Prettier", "getBinary">> ELSE <<"main", "done">>

\* An exception that nothing catches rejects main().
Crashed == <<"main", "crashed">>

----------------------------------------------------------------------------
(* main, lines 244-250: getChangedFiles and the test of files.length. *)

Main ==
    /\ pc = <<"main", "getChangedFiles">>
    /\ files' = getChangedFiles(options_pr, listing)
    /\ pc' = IF Len(files') # 0 THEN <<"ESLint", "getBinary">> ELSE <<"main", "done">>
    /\ UNCHANGED <<inputVars, treeVars, remote, started, binary, checks, id,
                   lintVars, updates, changes, file, commits, otherWrites>>

(* runESLint line 60, runPrettier line 198: the tool lookup. *)
GetBinary(stage) ==
    /\ pc = <<stage, "getBinary">>
    /\ started' = Append(started, stage)
    /\ \E lockfiles \in SUBSET Lockfiles, binOk \in BOOLEAN, probeOk \in BOOLEAN :
          LET found == getBinary(lockfiles, ToolName(stage), binOk, probeOk)
          IN  IF found = Throw
              THEN /\ pc' = Crashed
                   /\ UNCHANGED binary
              ELSE /\ pc' = <<stage, "startCheck">>
                   /\ binary' = [binary EXCEPT ![stage] = found]
    /\ UNCHANGED <<inputVars, files, treeVars, remote, checks, id, lintVars,
                   updates, changes, file, commits, otherWrites>>

(* startCheck, lines 39-48. *)
StartCheck(stage) ==
    /\ pc = <<stage, "startCheck">>
    /\ checks' = Append(checks, [name |-> stage, status |-> "in_progress"])
    /\ id' = [id EXCEPT ![stage] = Len(checks')]
    /\ pc' = <<stage, "run">>
    /\ UNCHANGED <<inputVars, files, treeVars, remote, started, binary, lintVars,
                   updates, changes, file, commits, otherWrites>>

(* runESLint, lines 63-90: the linter is run on the lintable files (not at  *)
(* all when there are none), its output parsed, the annotations built and   *)
(* split.  A missing binary, a failed run or unparsable output throws.      *)
GetESLintResults ==
    /\ pc = <<"ESLint", "run">>
    /\ LET args == LintArgs(files)
           report(out) ==
               /\ results' = out
               /\ errors' = CountErrors(out)
               /\ annotations' = BuildAnnotations(out)
               /\ payloads' = chunks(BuildAnnotations(out))
               /\ index' = 0
               /\ pc' = IF Len(payloads') = 0 THEN <<"ESLint", "changes">>
                                              ELSE <<"ESLint", "update">>
           throw ==
               /\ pc' = <<"ESLint", "catch">>
               /\ UNCHANGED <<results, errors, annotations, payloads, index>>
       IN  IF Len(args) = 0
           THEN report(<<>>) /\ UNCHANGED <<local, rewrote>>
           ELSE IF binary["ESLint"] = Null
           THEN throw /\ UNCHANGED <<local, rewrote>>
           ELSE \E t \in Rewrites(args) :
                   /\ local' = t
                   /\ rewrote' = [rewrote EXCEPT !["ESLint"] = Rewritten(t)]
                   /\ \/ throw
                      \/ \E out \in LinterOutputs(args) : report(out)
    /\ UNCHANGED <<inputVars, files, head, remote, started, binary, checks, id,
                   updates, logged, changes, file, commits, otherWrites>>

(* The update loop with the conclusion and the summary taken from the       *)
(* errors of the payload being sent.                                        *)
ESLintUpdatePerBatch ==
    /\ pc = <<"ESLint", "update">>
    /\ index < Len(payloads)
    /\ index' = index + 1
    /\ LET payload == payloads[index']
           failures == Len(SelectSeq(payload, LAMBDA a : a.annotation_level = "failure"))
       IN  updates' = Append(updates,
              [check_run_id |-> id["ESLint"],
               status |-> IF index' = Len(payloads) THEN "completed" ELSE "in_progress",
               conclusion |-> Conclusion(failures),
               title |-> "ESLint",
               summary |-> Summary(failures),
               annotations |-> payload])
    /\ pc' = IF index' = Len(payloads) THEN <<"ESLint", "changes">>
                                       ELSE <<"ESLint", "update">>
    /\ UNCHANGED <<inputVars, files, treeVars, remote, started, binary, checks, id,
                   results, errors, annotations, payloads, logged, changes, file,
                   commits, otherWrites>>

(* The update loop taking the payloads from the last to the first. *)
ESLintUpdateReversed ==
    /\ pc = <<"ESLint", "update">>
    /\ index < Len(payloads)
    /\ index' = index + 1
    /\ updates' = Append(updates,
          [check_run_id |-> id["ESLint"],
           status |-> IF index' = Len(payloads) THEN "completed" ELSE "in_progress",
           conclusion |-> Conclusion(errors),
           title |-> "ESLint",
           summary |-> Summary(errors),
           annotations |-> payloads[Len(payloads) - index]])
    /\ pc' = IF index' = Len(payloads) THEN <<"ESLint", "changes">>
                                       ELSE <<"ESLint", "update">>
    /\ UNCHANGED <<inputVars, files, treeVars, remote, started, binary, checks, id,
                   results, errors, annotations, payloads, logged, changes, file,
                   commits, otherWrites>>

(* runESLint, lines 91-105: one update per payload. *)
ESLintUpdate ==
    /\ pc = <<"ESLint", "update">>
    /\ index < Len(payloads)
    /\ index' = index + 1
    /\ updates' = Append(updates,
          [check_run_id |-> id["ESLint"],
           status |-> IF index' = Len(payloads) THEN "completed" ELSE "in_progress",
           conclusion |-> Conclusion(errors),
           title |-> "ESLint",
           summary |-> Summary(errors),
           annotations |-> payloads[index']])
    /\ pc' = IF index' = Len(payloads) THEN <<"ESLint", "changes">>
                                       ELSE <<"ESLint", "update">>
    /\ UNCHANGED <<inputVars, files, treeVars, remote, started, binary, checks, id,
                   results, errors, annotations, payloads, logged, changes, file,
                   commits, otherWrites>>

(* runESLint, lines 106-120: the catch block. *)
ESLintCatch ==
    /\ pc = <<"ESLint", "catch">>
    /\ logged' = logged + 1
    /\ updates' = Append(updates,
          [check_run_id |-> id["ESLint"],
           status |-> "completed",
           conclusion |-> "failure",
           title |-> "ESLint",
           summary |-> "error.message error.stack",
           annotations |-> <<>>])
    /\ pc' = <<"ESLint", "changes">>
    /\ UNCHANGED <<inputVars, files, treeVars, remote, started, binary, checks, id,
                   results, errors, annotations, payloads, index, changes, file,
                   commits, otherWrites>>

(* runPrettier, lines 200-230: the formatter is run on every file of the    *)
(* change set; success and failure each send one terminal update.           *)
RunPrettier ==
    /\ pc = <<"Prettier", "run">>
    /\ \E ok \in BOOLEAN, t \in Rewrites(files) :
          /\ binary["Prettier"] = Null => (~ok /\ t = local)
          /\ local' = t
          /\ rewrote' = [rewrote EXCEPT !["Prettier"] = Rewritten(t)]
          /\ updates' = Append(updates,
                [check_run_id |-> id["Prettier"],
                 status |-> "completed",
                 conclusion |-> IF ok THEN "success" ELSE "failure",
                 title |-> "ESLint",
                 summary |-> IF ok THEN "" ELSE "error.message error.stack",
                 annotations |-> <<>>])
    /\ pc' = <<"Prettier", "changes">>
    /\ UNCHANGED <<inputVars, files, head, remote, started, binary, checks, id,
                   lintVars, changes, file, commits, otherWrites>>

(* lines 122 and 232: getLocalChangedFiles(files). *)
GetLocalChanges(stage) ==
    /\ pc = <<stage, "changes">>
    /\ changes' = getLocalChangedFiles(files)
    /\ pc' = IF Len(changes') = 0 THEN AfterStage(stage) ELSE <<stage, "getFile">>
    /\ UNCHANGED <<inputVars, files, treeVars, remote, started, binary, checks, id,
                   lintVars, updates, file, commits, otherWrites>>

\* Control after the file at the head of changes has been dealt with.
NextFile(stage) ==
    /\ changes' = Tail(changes)
    /\ pc' = IF Len(changes) = 1 THEN AfterStage(stage) ELSE <<stage, "getFile">>

(* updateFile, lines 131-133: the read of the remote file and the           *)
(* comparison with the local contents.                                      *)
GetFile(stage) ==
    /\ pc = <<stage, "getFile">>
    /\ LET fileName == Head(changes)
           contents == local[fileName]
       IN  /\ file' = getFileFromBranch(fileName)
           /\ IF NeedsWrite(file', contents)
              THEN pc' = <<stage, "write">> /\ UNCHANGED changes
              ELSE NextFile(stage)
    /\ UNCHANGED <<inputVars, files, treeVars, remote, started, binary, checks, id,
                   lintVars, updates, commits, otherWrites>>

\* The contents API accepts an update of an existing file only when the
\* request carries the hash of the file's current contents.
RemoteAccepts(request) == request.sha = BlobSha(remote[request.path])

(* updateFile, lines 134-141: the write.  A rejected write throws, and      *)
(* nothing catches it.                                                      *)
WriteFile(stage) ==
    /\ pc = <<stage, "write">>
    /\ LET fileName == Head(changes)
           request == [path |-> fileName,
                       content |-> Base64(local[fileName]),
                       message |-> CommitMessage(StagePrefix(stage), fileName),
                       sha |-> CommitSha(file)]
       IN  IF RemoteAccepts(request)
           THEN /\ commits' = Append(commits, [request |-> request, ok |-> TRUE])
                /\ remote' = [remote EXCEPT ![fileName] = Base64Decode(request.content)]
                /\ NextFile(stage)
           ELSE /\ commits' = Append(commits, [request |-> request, ok |-> FALSE])
                /\ pc' = Crashed
                /\ UNCHANGED <<remote, changes>>
    /\ UNCHANGED <<inputVars, files, treeVars, started, binary, checks, id,
                   lintVars, updates, file, otherWrites>>

(* Another writer of the head branch pushes new contents of a file.  Only   *)
(* reconciliation reads or writes the branch, so a push at any earlier      *)
(* point of a stage is the same as one made just before getLocalChangedFiles,*)
(* and only files of the change set are ever read or written.               *)
OtherWriter ==
    /\ pc[2] \in {"changes", "getFile", "write"}
    /\ otherWrites < MaxOtherWrites
    /\ otherWrites' = otherWrites + 1
    /\ \E f \in Range(files), c \in Contents :
          /\ c # remote[f]
          /\ remote' = [remote EXCEPT ![f] = c]
    /\ UNCHANGED <<pc, inputVars, files, treeVars, started, binary, checks, id,
                   lintVars, updates, changes, file, commits>>

Next ==
    \/ Main
    \/ \E stage \in Stages : GetBinary(stage)
    \/ \E stage \in Stages : StartCheck(stage)
    \/ GetESLintResults
    \/ ESLintUpdate
    \/ ESLintCatch
    \/ RunPrettier
    \/ \E stage \in Stages : GetLocalChanges(stage)
    \/ \E stage \in Stages : GetFile(stage)
    \/ \E stage \in Stages : WriteFile(stage)
    \/ OtherWriter

Spec == Init /\ [][Next]_vars

----------------------------------------------------------------------------
(* The chain of invocations.  The workflow runs on pushes to the pull       *)
(* request's branch, and updateFile (lines 134-141) pushes to that branch:  *)
(* an invocation that wrote is followed by another one on the branch as it  *)
(* left it.  In the chain the two tools are functions of a file's contents, *)
(* the same in every invocation, each idempotent; both are installed and    *)
(* run without failure, and nobody else writes to the branch.               *)

\* The idempotent rewritings of a file's contents.
IdempotentTools == {t \in [Contents -> Contents] : \A c \in Contents : t[t[c]] = t[c]}

ToolPairs == [lint : IdempotentTools, format : IdempotentTools]

\* The working tree after tool t has rewritten the files args in place.
ToolTree(t, args) ==
    [f \in Files |-> IF f \in Range(args) THEN t[local[f]] ELSE local[f]]

\* The first invocation: a pull request whose branch holds the head commit.
InitChain ==
    /\ pc = <<"main", "getChangedFiles">>
    /\ options_pr = PRNumber
    /\ listing \in Listings
    /\ tools \in ToolPairs
    /\ files = <<>>
    /\ head \in [Files -> Contents]
    /\ local = head
    /\ rewrote = [s \in Stages |-> {}]
    /\ remote = head
    /\ started = <<>>
    /\ binary = [s \in Stages |-> "unset"]
    /\ checks = <<>>
    /\ id = [s \in Stages |-> 0]
    /\ results = <<>>
    /\ errors = 0
    /\ annotations = <<>>
    /\ payloads = <<>>
    /\ index = 0
    /\ updates = <<>>
    /\ logged = 0
    /\ changes = <<>>
    /\ file = [path |-> "", content |-> "", sha |-> ""]
    /\ commits = <<>>
    /\ otherWrites = 0

\* The tool lookup finding the tool.
ChainGetBinary(stage) ==
    /\ GetBinary(stage)
    /\ pc' = <<stage, "startCheck">>
    /\ binary'[stage] # Null

\* The linter's output in the chain: at most one message for each file, a
\* warning without a fix.
ChainOutputs(args) ==
    {[i \in 1..Len(args) |->
        [filePath |-> AbsolutePath(Workspace, args[i]),
         messages |-> LinterMessages(n, 0, n + 1)]] : n \in {0, 1}}

\* runESLint, lines 63-90, with the linter of the chain: --fix applies lint
\* to the lintable files.
ChainLint ==
    /\ pc = <<"ESLint", "run">>
    /\ LET args == LintArgs(files)
       IN  /\ local' = ToolTree(tools.lint, args)
           /\ rewrote' = [rewrote EXCEPT !["ESLint"] = Rewritten(local')]
           /\ \E out \in (IF Len(args) = 0 THEN {<<>>} ELSE ChainOutputs(args)) :
                 /\ results' = out
                 /\ errors' = CountErrors(out)
                 /\ annotations' = BuildAnnotations(out)
                 /\ payloads' = chunks(BuildAnnotations(out))
                 /\ index' = 0
                 /\ pc' = IF Len(payloads') = 0 THEN <<"ESLint", "changes">>
                                                ELSE <<"ESLint", "update">>
    /\ UNCHANGED <<inputVars, files, head, remote, started, binary, checks, id,
                   updates, logged, changes, file, commits, otherWrites>>

\* The formatter's run with --write: format applied to the change set.
ChainFormat ==
    /\ RunPrettier
    /\ local' = ToolTree(tools.format, files)
    /\ Last(updates').conclusion = "success"

\* The writes of this invocation that the branch accepted.
AcceptedWrites == SelectSeq(commits, LAMBDA c : c.ok)

\* An invocation that wrote to the branch has ended: the next one starts on
\* a fresh checkout of the branch.
Retrigger ==
    /\ pc = <<"main", "done">>
    /\ AcceptedWrites # <<>>
    /\ pc' = <<"main", "getChangedFiles">>
    /\ head' = remote
    /\ local' = remote
    /\ files' = <<>>
    /\ rewrote' = [s \in Stages |-> {}]
    /\ started' = <<>>
    /\ binary' = [s \in Stages |-> "unset"]
    /\ checks' = <<>>
    /\ id' = [s \in Stages |-> 0]
    /\ results' = <<>>
    /\ errors' = 0
    /\ annotations' = <<>>
    /\ payloads' = <<>>
    /\ index' = 0
    /\ updates' = <<>>
    /\ logged' = 0
    /\ changes' = <<>>
    /\ file' = [path |-> "", content |-> "", sha |-> ""]
    /\ commits' = <<>>
    /\ UNCHANGED <<inputVars, remote, otherWrites>>

NextChain ==
    \/ Main
    \/ \E stage \in Stages : ChainGetBinary(stage)
    \/ \E stage \in Stages : StartCheck(stage)
    \/ ChainLint
    \/ ESLintUpdate
    \/ ChainFormat
    \/ \E stage \in Stages : GetLocalChanges(stage)
    \/ \E stage \in Stages : GetFile(stage)
    \/ \E stage \in Stages : WriteFile(stage)
    \/ Retrigger

\* Every step of an invocation is eventually taken, and so is the retrigger.
SpecChain == InitChain /\ [][NextChain]_vars /\ WF_vars(NextChain)

----------------------------------------------------------------------------
(* Vocabulary of the properties. *)

\* The updates issued for check run i, in order.
UpdatesOf(i) == SelectSeq(updates, LAMBDA u : u.check_run_id = i)

\* The annotations of the updates us, concatenated in order.
SentAnnotations(us) == Flatten([i \in 1..Len(us) |-> us[i].annotations])

CompletedCount(us) == Cardinality({i \in 1..Len(us) : us[i].status = "completed"})

CeilDiv(n, d) == (n + d - 1) \div d

\* The stage's check run exists and its try block has been left.
PastReport(stage) ==
    /\ id[stage] # 0
    /\ pc \notin {<<stage, "run">>, <<stage, "update">>, <<stage, "catch">>}

\* The linter stage has sent its report without an exception.
ReportDone == PastReport("ESLint") /\ logged = 0

\* The stage has created its check run and has returned to main.
StageReturned(stage) ==
    /\ id[stage] # 0
    /\ IF stage = "ESLint" THEN pc[1] = "Prettier" \/ pc = <<"main", "done">>
                           ELSE pc = <<"main", "done">>

\* main() has ended, by returning or by an uncaught exception.
Ended == pc[1] = "main" /\ pc[2] \in {"done", "crashed"}

\* The reported diagnostics: the linter's messages that are not suppressed.
Reported == BuildAnnotations(results)

HasReportedError ==
    \E i \in 1..Len(results) : \E k \in 1..Len(results[i].messages) :
        IsCountedError(results[i].messages[k])

\* The conclusion a check run shows: that of its completing update, if any.
RunConclusion(i) ==
    LET us == UpdatesOf(i)
    IN  IF us # <<>> /\ Last(us).status = "completed" THEN Last(us).conclusion ELSE "unset"

Level(severity) == IF severity = 2 THEN "failure" ELSE "warning"

----------------------------------------------------------------------------
(* C1: when the linter stage has no diagnostics to report, exactly one      *)
(* update is issued for the ESLint check run, and it carries status         *)
(* completed and conclusion success.                                        *)
C1_EmptyReportOneUpdate ==
    (ReportDone /\ Reported = <<>>) =>
        LET us == UpdatesOf(id["ESLint"])
        IN  /\ Len(us) = 1
            /\ us[1].status = "completed"
            /\ us[1].conclusion = "success"

(* C2: by the time a stage returns, exactly one update with status          *)
(* completed has been issued for its check run, and it is the last update   *)
(* of that run.                                                             *)
C2_CompletedExactlyOnce ==
    \A stage \in Stages :
        StageReturned(stage) =>
            LET us == UpdatesOf(id[stage])
            IN  /\ us # <<>>
                /\ Last(us).status = "completed"
                /\ CompletedCount(us) = 1

(* C3: the annotations of the updates of the linter run, concatenated in    *)
(* the order the updates were issued, are exactly the reported diagnostics. *)
C3_BatchesPartition ==
    ReportDone => SentAnnotations(UpdatesOf(id["ESLint"])) = Reported

(* C4: for n reported diagnostics the linter stage issues ceil(n/50)        *)
(* updates; every update before the last carries in_progress and the last   *)
(* one completed.                                                           *)
C4_UpdateCount ==
    ReportDone =>
        LET us == UpdatesOf(id["ESLint"])
        IN  /\ Len(us) = CeilDiv(Len(Reported), 50)
            /\ \A i \in 1..Len(us) :
                  us[i].status = IF i = Len(us) THEN "completed" ELSE "in_progress"

\* A report of more than 50 diagnostics has been sent in two updates.
C4_Witness ==
    /\ ReportDone
    /\ Len(Reported) > 50
    /\ Len(UpdatesOf(id["ESLint"])) = 2

(* C5: the linter check run concludes failure when a reported diagnostic    *)
(* is an error and success otherwise, and every reported diagnostic is sent *)
(* as an annotation of the level of its severity.                           *)
C5_ConclusionAndLevels ==
    ReportDone =>
        LET sent == SentAnnotations(UpdatesOf(id["ESLint"]))
        IN  /\ RunConclusion(id["ESLint"]) =
                  (IF HasReportedError THEN "failure" ELSE "success")
            /\ \A i \in 1..Len(results) : \A k \in 1..Len(results[i].messages) :
                  LET m == results[i].messages[k]
                  IN  IsReported(m) =>
                         \E j \in 1..Len(sent) :
                            /\ sent[j].path = PathRelative(Workspace, results[i].filePath)
                            /\ sent[j].start_line = m.line
                            /\ sent[j].annotation_level = Level(m.severity)

(* C6: a remote write is issued for a file only if the file's local         *)
(* contents differ from the contents of the file that the read preceding    *)
(* the write found on the head branch.                                      *)
C6_WriteOnlyIfDifferent ==
    [][commits' # commits =>
          LET path == Last(commits').request.path
          IN  local[path] # Base64Decode(file.content)]_vars

(* C7: whenever the change set is not empty, both the ESLint stage and the  *)
(* Prettier stage are attempted, whatever fails inside the linter stage.    *)
C7_BothStagesAttempted ==
    (Ended /\ Len(files) # 0) => started = <<"ESLint", "Prettier">>

(* C8: when the tool locator returns none for a stage's tool, the stage's   *)
(* check run is created and receives a terminal update with status          *)
(* completed and conclusion failure.                                        *)
C8_MissingToolFailsRun ==
    \A stage \in Stages :
        (binary[stage] = Null /\ PastReport(stage)) =>
            LET us == UpdatesOf(id[stage])
            IN  /\ us # <<>>
                /\ Last(us).status = "completed"
                /\ Last(us).conclusion = "failure"

(* C9: for a change set of one file for which the linter reports zero       *)
(* messages and which the formatter rewrites to contents different from the *)
(* remote ones, exactly one remote commit is issued for the file and both   *)
(* check runs end completed with conclusion success.                        *)
C9_FormatOnlyScenario ==
    (/\ pc = <<"main", "done">>
     /\ files = <<"a.ts">>
     /\ Len(results) = 1 /\ results[1].messages = <<>>
     /\ logged = 0
     /\ rewrote["ESLint"] = {}
     /\ rewrote["Prettier"] = {"a.ts"}
     /\ RunConclusion(id["Prettier"]) = "success"
     /\ otherWrites = 0)
    =>
    /\ Len(commits) = 1
    /\ commits[1].request.path = "a.ts"
    /\ RunConclusion(id["ESLint"]) = "success"
    /\ RunConclusion(id["Prettier"]) = "success"

(* C10: every commit-back write carries the hash returned by the read of    *)
(* the same file just before it; when the file on the head branch has       *)
(* changed since that read the write is rejected, the branch is left as the *)
(* other writer made it, and no further write follows in this invocation.   *)
C10_HashKeyedWrite ==
    /\ [](\A i \in 1..(Len(commits) - 1) : commits[i].ok)
    /\ [][commits' # commits =>
             LET c == Last(commits')
                 path == c.request.path
             IN  /\ file.path = path
                 /\ c.request.sha = file.sha
                 /\ file.sha # BlobSha(remote[path]) =>
                       (~c.ok /\ remote' = remote /\ pc' = Crashed)]_vars

\* A write has been rejected because the file changed after it was read.
C10_Witness ==
    /\ commits # <<>>
    /\ ~Last(commits).ok
    /\ file.sha # BlobSha(remote[file.path])

----------------------------------------------------------------------------
\* The entries of the files-changed resource, all pages in page order.
ListedEntries == Flatten(listing)

\* The positions of the listed entries that are not removed.
KeptPositions == {i \in 1..Len(ListedEntries) : ListedEntries[i].status # "removed"}

\* The k-th smallest element of the set of numbers S.
Nth(S, k) == CHOOSE i \in S : Cardinality({j \in S : j <= i}) = k

\* getChangedFiles has returned.
ChangeSetKnown == pc # <<"main", "getChangedFiles">>

(* C11: when there is no pull request, or every listed file is removed, the *)
(* invocation looks up no tool, enters no stage, creates no check run,      *)
(* sends no update, rewrites no file and issues no remote write.            *)
C11_EmptyChangeSetNoOp ==
    (options_pr = NoPR \/ KeptPositions = {}) =>
        /\ started = <<>>
        /\ \A stage \in Stages : binary[stage] = "unset" /\ rewrote[stage] = {}
        /\ checks = <<>>
        /\ updates = <<>>
        /\ commits = <<>>
        /\ local = head
        /\ ChangeSetKnown => pc = <<"main", "done">>

\* An invocation without a pull request has ended although files are listed.
C11_Witness ==
    /\ pc = <<"main", "done">>
    /\ options_pr = NoPR
    /\ KeptPositions # {}

(* C12: the change set is the subsequence of the listed entries whose       *)
(* status is not removed, in the order of the listing.                      *)
C12_ChangeSetIsKeptSubsequence ==
    (ChangeSetKnown /\ options_pr # NoPR) =>
        /\ Len(files) = Cardinality(KeptPositions)
        /\ \A k \in 1..Len(files) :
              files[k] = ListedEntries[Nth(KeptPositions, k)].filename

\* A listing of two pages with a removed entry before a kept one has been read.
C12_Witness ==
    /\ ChangeSetKnown
    /\ options_pr # NoPR
    /\ Len(listing) = 2
    /\ ListedEntries[1].status = "removed"
    /\ files = <<ListedEntries[2].filename>>

----------------------------------------------------------------------------
\* The positions <<i, k>> of the linter's messages: message k of result i.
MessagePositions(rs) ==
    UNION {{<<i, k>> : k \in 1..Len(rs[i].messages)} : i \in 1..Len(rs)}

MessageAt(rs, p) == rs[p[1]].messages[p[2]]

\* The messages of rs that carry a fix, and the errors that carry none.
FixablePositions(rs) == {p \in MessagePositions(rs) : MessageAt(rs, p).fix}
UnfixableErrors(rs) ==
    {p \in MessagePositions(rs) :
        MessageAt(rs, p).severity = 2 /\ ~MessageAt(rs, p).fix}
AllErrors(rs) == {p \in MessagePositions(rs) : MessageAt(rs, p).severity = 2}

(* C13: in fix mode a message that carries a fix gives no annotation in any *)
(* update and is not counted as an error, so the conclusion depends on the  *)
(* other messages only; outside fix mode every message gives an annotation  *)
(* and every error is counted.                                              *)
C13_FixableDroppedInFixMode ==
    /\ (ReportDone /\ options_fix) =>
          LET us == UpdatesOf(id["ESLint"])
          IN  /\ \A u \in Range(us) : \A a \in Range(u.annotations) :
                    \A p \in FixablePositions(results) :
                       ~(/\ a.path = PathRelative(Workspace, results[p[1]].filePath)
                         /\ a.start_line = MessageAt(results, p).line)
              /\ errors = Cardinality(UnfixableErrors(results))
              /\ \A u \in Range(us) :
                    u.conclusion = (IF UnfixableErrors(results) # {} THEN "failure"
                                                                     ELSE "success")
    /\ ~options_fix =>
          \A out \in LinterOutputs(<<"a.ts">>) :
             /\ Len(BuildAnnotations(out)) = Cardinality(MessagePositions(out))
             /\ CountErrors(out) = Cardinality(AllErrors(out))

\* In fix mode a report has concluded success although the linter's output
\* holds an error, which carries a fix.
C13_Witness ==
    /\ ReportDone
    /\ options_fix
    /\ AllErrors(results) # {}
    /\ AllErrors(results) \subseteq FixablePositions(results)
    /\ RunConclusion(id["ESLint"]) = "success"

----------------------------------------------------------------------------
(* C14: when the linter fails or its output cannot be parsed, the ESLint    *)
(* check run receives exactly one update, completed with conclusion         *)
(* failure, and the formatter stage still runs afterwards.                  *)
C14_LinterFailureContained ==
    (Ended /\ logged = 1) =>
        LET us == UpdatesOf(id["ESLint"])
        IN  /\ Len(us) = 1
            /\ us[1].status = "completed"
            /\ us[1].conclusion = "failure"
            /\ started = <<"ESLint", "Prettier">>

----------------------------------------------------------------------------
(* C16: every update of a linter run that reports carries the conclusion    *)
(* and the summary given by the total number of reported errors, whatever   *)
(* its status and whatever part of the diagnostics it carries.              *)
C16_ConclusionDecidedOnce ==
    logged = 0 =>
        \A u \in Range(UpdatesOf(id["ESLint"])) :
            LET total == Cardinality({p \in MessagePositions(results) :
                                         /\ MessageAt(results, p).severity = 2
                                         /\ ~(MessageAt(results, p).fix /\ options_fix)})
            IN  /\ u.conclusion = (IF total > 0 THEN "failure" ELSE "success")
                /\ u.summary = ToString(total) \o
                      (IF total = 1 THEN " error found" ELSE " errors found")

\* An in_progress update without an error annotation carries failure, the
\* only error being the 51st diagnostic.
C16_Witness ==
    /\ logged = 0
    /\ \E u \in Range(UpdatesOf(id["ESLint"])) :
          /\ u.status = "in_progress"
          /\ u.conclusion = "failure"
          /\ \A a \in Range(u.annotations) : a.annotation_level = "warning"

----------------------------------------------------------------------------
\* The files a stage's reconciliation may touch: those of the change set that
\* the working tree holds modified.
Eligible == {f \in Range(files) : local[f] # head[f]}

(* C17: a stage's reconciliation reads and writes on the head branch only   *)
(* files of the change set that are modified in the working tree, leaves    *)
(* every other file of the branch as it is, and gives each write the        *)
(* message made of the stage's prefix and the file's path.                  *)
C17_ReconcileFrame ==
    [][/\ file' # file => file'.path \in Eligible
       /\ commits' # commits =>
             LET request == Last(commits').request
             IN  /\ request.path \in Eligible
                 /\ request.message =
                       (IF pc[1] = "ESLint" THEN "style(auto): eslint fix "
                                            ELSE "style(auto): prettier fix ") \o request.path
                 /\ \A f \in Files : f # request.path => remote'[f] = remote[f]
       /\ (remote' # remote /\ otherWrites' = otherWrites) => commits' # commits]_vars

\* A write has been accepted while another file of the change set is
\* unmodified in the working tree.
C17_Witness ==
    /\ commits # <<>>
    /\ Last(commits).ok
    /\ \E f \in Range(files) : local[f] = head[f]

(* C18: within one invocation and without another writer, no file receives  *)
(* two remote writes with identical contents.                               *)
C18_NoRepeatedWrite ==
    otherWrites = 0 =>
        \A i, j \in 1..Len(commits) :
            (i < j /\ commits[i].request.path = commits[j].request.path)
                => commits[i].request.content # commits[j].request.content

(* C19: every check-run update carries at most 50 annotations. *)
C19_AtMostFiftyAnnotations ==
    \A u \in Range(updates) : Len(u.annotations) <= 50

\* An update of 50 annotations has been sent for a report of more than 50.
C19_Witness ==
    /\ Len(Reported) > 50
    /\ \E u \in Range(updates) : Len(u.annotations) = 50

----------------------------------------------------------------------------
\* The stage that issued a commit-back write, read off its message.
IsESLintCommit(c) ==
    c.request.message = "style(auto): eslint fix " \o c.request.path

(* C20: the stages do not overlap and the batches go out in order: when the *)
(* formatter stage is entered the linter stage has sent all its updates and *)
(* finished its reconciliation; in the logs of check runs, updates and      *)
(* writes nothing of the linter stage follows anything of the formatter     *)
(* stage; the k-th update of the linter run carries the k-th batch.         *)
C20_StagesAndBatchesInOrder ==
    /\ started \in {<<>>, <<"ESLint">>, <<"ESLint", "Prettier">>}
    /\ \A i \in 1..Len(checks) :
          checks[i].name = (IF i = 1 THEN "ESLint" ELSE "Prettier")
    /\ pc[1] = "Prettier" =>
          /\ logged = 0 => Len(UpdatesOf(id["ESLint"])) = Len(payloads)
          /\ logged = 1 => Len(UpdatesOf(id["ESLint"])) = 1
          /\ \A c \in Range(commits) : IsESLintCommit(c) => c.ok
    /\ "Prettier" \notin Range(started) =>
          /\ \A u \in Range(updates) : u.check_run_id = id["ESLint"]
          /\ \A c \in Range(commits) : IsESLintCommit(c)
          /\ id["Prettier"] = 0
          /\ rewrote["Prettier"] = {}
    /\ \A i, j \in 1..Len(updates) :
          (i < j /\ updates[i].check_run_id = id["Prettier"])
              => updates[j].check_run_id # id["ESLint"]
    /\ \A i, j \in 1..Len(commits) :
          (i < j /\ ~IsESLintCommit(commits[i])) => ~IsESLintCommit(commits[j])
    /\ logged = 0 =>
          LET us == UpdatesOf(id["ESLint"])
          IN  \A k \in 1..Len(us) : us[k].annotations = payloads[k]

\* An invocation has ended after two linter updates and one write of each stage.
C20_Witness ==
    /\ pc = <<"main", "done">>
    /\ Len(UpdatesOf(id["ESLint"])) = 2
    /\ Len(UpdatesOf(id["Prettier"])) = 1
    /\ Len(commits) = 2
    /\ IsESLintCommit(commits[1])
    /\ ~IsESLintCommit(commits[2])

----------------------------------------------------------------------------
\* An invocation has ended without a write to the branch.
Quiet == pc = <<"main", "done">> /\ commits = <<>>

\* The linter leaves alone whatever the formatter produces.
ToolsAgree == \A c \in Contents : tools.lint[tools.format[c]] = tools.format[c]

====
